---- MODULE Spec2Model ----
(***************************************************************************)
(* Model of the parent-illness-absences pipeline:                          *)
(*   IpumsCpsClient.minimal_recode   (src/data/ipums_cps.py)               *)
(*   make_parent_flags, _aggregate_monthly_rates (src/features/...)        *)
(*   _make_periods                   (src/analysis/did_model.py)           *)
(*   IpumsCpsClient.poll_extract and main (src/data/ipums_cps.py)          *)
(*                                                                         *)
(* A table is [cols |-> set of column names, rows |-> sequence of rows],   *)
(* a row a function from the column names to cells.  A cell is a record    *)
(* [k, v, d, s]: k = "num" is the number v/d, k = "str" the text s,        *)
(* k = "nan" a None/NaN of an object or float column and k = "na" the      *)
(* pd.NA of a nullable Int64 column.                                       *)
(***************************************************************************)
EXTENDS Integers, Sequences, FiniteSets, TLC

VARIABLES
    stage,    \* which routine the caller applies: "recode", "flags", "agg", "periods", "fetch"
    df,       \* the table object the caller holds and passes in
    orig,     \* the contents of df when it was constructed
    prev,     \* the table returned by the call before the latest one
    out,      \* the table returned by the latest call
    err,      \* the exception the latest call raised, "none" when it returned
    calls,    \* how many times the routine has been applied
    pc,       \* position of main() of ipums_cps.py
    status,   \* the extract status most recently fetched by poll_extract
    elapsed,  \* time.time() - start inside poll_extract
    polls,    \* number of status requests poll_extract has made
    exc       \* the exception that ended main(), "none" otherwise

vars == <<stage, df, orig, prev, out, err, calls, pc, status, elapsed, polls, exc>>

tableVars == <<df, orig, prev, out, err, calls>>
fetchVars == <<pc, status, elapsed, polls, exc>>

----------------------------------------------------------------------------
(* Bounds of the model *)

MaxRecodeRows == 2
MaxFlagRows == 1
MaxAggRows == 2
MaxPeriodRows == 2
MaxCalls == 2
TimeoutS == 3      \* timeout_s of poll_extract, in ticks
WaitS == 1         \* wait_s of poll_extract, in ticks
MaxLatency == 1    \* longest time one status request takes, in ticks

----------------------------------------------------------------------------
(* Cells *)

NaN == [k |-> "nan", v |-> 0, d |-> 1, s |-> ""]
NA == [k |-> "na", v |-> 0, d |-> 1, s |-> ""]
Num(n) == [k |-> "num", v |-> n, d |-> 1, s |-> ""]
Frac(n, m) == [k |-> "num", v |-> n, d |-> m, s |-> ""]
Str(t) == [k |-> "str", v |-> 0, d |-> 1, s |-> t]

IsNull(c) == c.k \in {"nan", "na"}
IsNum(c) == c.k = "num"
IsWhole(c) == c.k = "num" /\ c.v % c.d = 0

\* comparisons of a numeric cell with an integer; a null compares False
Eq(c, n) == IsNum(c) /\ c.v = n * c.d
Gt(c, n) == IsNum(c) /\ c.v > n * c.d
Ge(c, n) == IsNum(c) /\ c.v >= n * c.d
Le(c, n) == IsNum(c) /\ c.v <= n * c.d

\* what pandas reads out of a text cell
ParseText(t) ==
    CASE t = "0" -> Num(0)
      [] t = "1" -> Num(1)
      [] t = "10" -> Num(10)
      [] t = "2008" -> Num(2008)
      [] t = "3.5" -> Frac(7, 2)
      [] OTHER -> NaN

\* a reader that takes text only and gives NaN for a value that is a number already
ToNumeric_TextOnly(c) ==
    CASE c.k = "str" -> ParseText(c.s)
      [] c.k = "na" -> NA
      [] OTHER -> NaN

\* pd.to_numeric(x, errors="coerce") on one cell
ToNumeric(c) ==
    CASE c.k = "num" -> c
      [] c.k = "str" -> ParseText(c.s)
      [] c.k = "na" -> NA
      [] OTHER -> NaN

\* .fillna(0) on one cell
FillNa0(c) == IF IsNull(c) THEN Num(0) ELSE c

\* .astype("Int64") on one cell that can be cast
AsInt64(c) == IF IsNull(c) THEN NA ELSE Num(c.v \div c.d)

\* (bool).astype(int)
BoolInt(b) == IF b THEN Num(1) ELSE Num(0)

----------------------------------------------------------------------------
(* Tables *)

EmptyTable == [cols |-> {}, rows |-> <<>>]

NRows(t) == Len(t.rows)

Column(t, c) == [i \in 1..NRows(t) |-> t.rows[i][c]]

\* df[c] = values: replaces or adds column c
SetColumn(t, c, values) ==
    [cols |-> t.cols \cup {c},
     rows |-> [i \in 1..NRows(t) |->
                 [x \in t.cols \cup {c} |-> IF x = c THEN values[i] ELSE t.rows[i][x]]]]

\* a row cut down to the columns cs
Project(row, cs) == [c \in cs |-> row[c]]

----------------------------------------------------------------------------
(* IpumsCpsClient.minimal_recode *)

RecodeColumns ==
    <<"YEAR", "MONTH", "STATEFIP", "AGE", "SEX", "EDUC", "EMPSTAT",
      "NCHILD", "NCHLT5", "MOMLOC", "POPLOC", "ABSENT", "WHYABSNT">>

own_ill_codes == {10}

\* df[c] = pd.to_numeric(df[c], errors="coerce").astype("Int64"):
\* the cast raises TypeError when a value is not a whole number
CoerceColumn(t, c) ==
    LET num == [i \in 1..NRows(t) |-> ToNumeric(t.rows[i][c])]
    IN  IF \E i \in 1..NRows(t) : IsNum(num[i]) /\ ~IsWhole(num[i])
        THEN [df |-> t, err |-> "TypeError"]
        ELSE [df |-> SetColumn(t, c, [i \in 1..NRows(t) |-> AsInt64(num[i])]),
              err |-> "none"]

\* the two for loops, from column i of RecodeColumns on
RECURSIVE CoerceFrom(_, _)
CoerceFrom(t, i) ==
    IF i > Len(RecodeColumns) THEN [df |-> t, err |-> "none"]
    ELSE IF RecodeColumns[i] \notin t.cols THEN CoerceFrom(t, i + 1)
    ELSE LET r == CoerceColumn(t, RecodeColumns[i])
         IN  IF r.err # "none" THEN r ELSE CoerceFrom(r.df, i + 1)

\* the flag without its ABSENT == 1 half
OwnIllFlag_ReasonOnly(row) ==
    BoolInt(\E code \in own_ill_codes : Eq(row["WHYABSNT"], code))

\* (df["ABSENT"].fillna(0) == 1) & (df["WHYABSNT"].isin(list(own_ill_codes)))
OwnIllFlag(row) ==
    BoolInt(Eq(FillNa0(row["ABSENT"]), 1)
            /\ \E code \in own_ill_codes : Eq(row["WHYABSNT"], code))

\* the routine reading ABSENT and WHYABSNT with df.get: a column that is not
\* there reads as nulls and the flag is 0
minimal_recode_Defaulted(t) ==
    LET r == CoerceFrom(t, 1)
        cell(row, c) == IF c \in r.df.cols THEN row[c] ELSE NaN
    IN  IF r.err # "none" THEN [df |-> r.df, ret |-> EmptyTable, err |-> r.err]
        ELSE LET done == SetColumn(r.df, "own_ill_absent",
                            [i \in 1..NRows(r.df) |->
                                BoolInt(Eq(FillNa0(cell(r.df.rows[i], "ABSENT")), 1)
                                        /\ \E code \in own_ill_codes :
                                              Eq(cell(r.df.rows[i], "WHYABSNT"), code))])
             IN  [df |-> done, ret |-> done, err |-> "none"]

\* the whole routine: df is the caller's object afterwards, ret the returned table
minimal_recode(t) ==
    LET r == CoerceFrom(t, 1)
    IN  IF r.err # "none" THEN [df |-> r.df, ret |-> EmptyTable, err |-> r.err]
        ELSE IF "ABSENT" \notin r.df.cols \/ "WHYABSNT" \notin r.df.cols
        THEN [df |-> r.df, ret |-> EmptyTable, err |-> "KeyError"]
        ELSE LET done == SetColumn(r.df, "own_ill_absent",
                                   [i \in 1..NRows(r.df) |-> OwnIllFlag(r.df.rows[i])])
             IN  [df |-> done, ret |-> done, err |-> "none"]

----------------------------------------------------------------------------
(* make_parent_flags *)

FlagColumns == {"NCHILD", "MOMLOC", "POPLOC", "NCHLT5"}

\* pd.to_numeric(df.get(c), errors="coerce").fillna(0) on one cell
NumOrZero(c) == FillNa0(ToNumeric(c))

\* the flag without the two link fields
IsParentFlag_ChildrenOnly(row) == BoolInt(Gt(NumOrZero(row["NCHILD"]), 0))

\* ((nch > 0) | (momloc > 0) | (poploc > 0)).astype(int)
IsParentFlag(row) ==
    BoolInt(Gt(NumOrZero(row["NCHILD"]), 0)
            \/ Gt(NumOrZero(row["MOMLOC"]), 0)
            \/ Gt(NumOrZero(row["POPLOC"]), 0))

\* (nclt5 > 0).astype(int)
ChildU5Flag(row) == BoolInt(Gt(NumOrZero(row["NCHLT5"]), 0))

\* df.get(c) is None for a column that is not there, pd.to_numeric(None) is the
\* float nan, and nan.fillna raises AttributeError; the input is copied first
make_parent_flags(t) ==
    IF ~(FlagColumns \subseteq t.cols)
    THEN [df |-> t, ret |-> EmptyTable, err |-> "AttributeError"]
    ELSE LET a == SetColumn(t, "is_parent",
                            [i \in 1..NRows(t) |-> IsParentFlag(t.rows[i])])
             b == SetColumn(a, "has_child_u5",
                            [i \in 1..NRows(t) |-> ChildU5Flag(t.rows[i])])
         IN  [df |-> t, ret |-> b, err |-> "none"]

----------------------------------------------------------------------------
(* _aggregate_monthly_rates *)

EmployedCodes == {10, 12}

\* the filter with the ages 25 and 49 left out
Keep_ExclusiveAge(row) ==
    /\ \E code \in EmployedCodes : Eq(NumOrZero(row["EMPSTAT"]), code)
    /\ Gt(NumOrZero(row["AGE"]), 25)
    /\ ~Ge(NumOrZero(row["AGE"]), 49)

\* keep = (emp.isin([10, 12])) & (age.between(25, 49))
Keep(row) ==
    /\ \E code \in EmployedCodes : Eq(NumOrZero(row["EMPSTAT"]), code)
    /\ Ge(NumOrZero(row["AGE"]), 25)
    /\ Le(NumOrZero(row["AGE"]), 49)

GroupColumns == <<"YEAR", "MONTH", "is_parent">>

KeyOf(row) == [j \in 1..Len(GroupColumns) |-> row[GroupColumns[j]]]

\* groupby drops the rows whose key holds a null (dropna=True)
Grouped(t) ==
    {i \in 1..NRows(t) : Keep(t.rows[i]) /\ \A j \in 1..Len(GroupColumns) :
                                               ~IsNull(KeyOf(t.rows[i])[j])}

GroupKeys(t) == {KeyOf(t.rows[i]) : i \in Grouped(t)}

\* lexicographic order of two keys of whole numbers
KeyLess(a, b) ==
    \E j \in 1..Len(GroupColumns) :
        /\ a[j].v < b[j].v
        /\ \A h \in 1..(j - 1) : a[j - h].v = b[j - h].v

\* groupby(sort=True): the keys in ascending order
RECURSIVE SortedKeys(_)
SortedKeys(ks) ==
    IF ks = {} THEN <<>>
    ELSE LET lo == CHOOSE a \in ks : \A b \in ks \ {a} : KeyLess(a, b)
         IN  <<lo>> \o SortedKeys(ks \ {lo})

RECURSIVE SumOver(_, _, _)
SumOver(t, c, is) ==
    IF is = {} THEN 0
    ELSE LET i == CHOOSE x \in is : TRUE
         IN  t.rows[i][c].v + SumOver(t, c, is \ {i})

\* g["own_ill_absent"].mean() of one group: sum / count
GroupMean(t, key) ==
    LET members == {i \in Grouped(t) : KeyOf(t.rows[i]) = key}
    IN  Frac(SumOver(t, "own_ill_absent", members), Cardinality(members))

AggColumns == {"YEAR", "MONTH", "is_parent", "rate"}

\* one output row per group, then .astype({"YEAR": int, "MONTH": int, "is_parent": int})
RateRow(t, key) ==
    [c \in AggColumns |->
        CASE c = "YEAR" -> Num(key[1].v \div key[1].d)
          [] c = "MONTH" -> Num(key[2].v \div key[2].d)
          [] c = "is_parent" -> Num(key[3].v \div key[3].d)
          [] OTHER -> GroupMean(t, key)]

\* groupby(sort=False): the keys in the order the records first show them
RECURSIVE AppearanceFrom(_, _, _)
AppearanceFrom(t, i, seen) ==
    IF i > NRows(t) THEN <<>>
    ELSE IF i \in Grouped(t) /\ KeyOf(t.rows[i]) \notin seen
    THEN <<KeyOf(t.rows[i])>> \o AppearanceFrom(t, i + 1, seen \cup {KeyOf(t.rows[i])})
    ELSE AppearanceFrom(t, i + 1, seen)

GroupOrder_Appearance(t) == AppearanceFrom(t, 1, {})

\* groupby(...) sorts the group keys by default
GroupOrder(t) == SortedKeys(GroupKeys(t))

\* the input is read, never assigned to
aggregate_monthly_rates(t) ==
    IF ~({"EMPSTAT", "AGE"} \subseteq t.cols)
    THEN [df |-> t, ret |-> EmptyTable, err |-> "AttributeError"]
    ELSE IF ~({"YEAR", "MONTH", "is_parent", "own_ill_absent"} \subseteq t.cols)
    THEN [df |-> t, ret |-> EmptyTable, err |-> "KeyError"]
    ELSE LET ks == GroupOrder(t)
         IN  [df |-> t,
              ret |-> [cols |-> AggColumns,
                       rows |-> [n \in 1..Len(ks) |-> RateRow(t, ks[n])]],
              err |-> "none"]

----------------------------------------------------------------------------
(* _make_periods *)

\* ((y >= 1994) & (y <= 2007)).astype(int)
P1Flag(y) == BoolInt(Ge(y, 1994) /\ Le(y, 2007))
\* the second period starting a year late
P2Flag_Late(y) == BoolInt(Gt(y, 2008) /\ Le(y, 2019))

\* ((y >= 2008) & (y <= 2019)).astype(int)
P2Flag(y) == BoolInt(Ge(y, 2008) /\ Le(y, 2019))
\* (y >= 2020).astype(int)
P3Flag(y) == BoolInt(Ge(y, 2020))

\* the input is copied; df[year_col] raises KeyError without the column; a
\* comparison on a nullable column holding pd.NA is NA, which astype(int) refuses
make_periods(t) ==
    IF "YEAR" \notin t.cols
    THEN [df |-> t, ret |-> EmptyTable, err |-> "KeyError"]
    ELSE LET y == [i \in 1..NRows(t) |-> ToNumeric(t.rows[i]["YEAR"])]
         IN  IF \E i \in 1..NRows(t) : y[i].k = "na"
             THEN [df |-> t, ret |-> EmptyTable, err |-> "ValueError"]
             ELSE LET a == SetColumn(t, "P1", [i \in 1..NRows(t) |-> P1Flag(y[i])])
                      b == SetColumn(a, "P2", [i \in 1..NRows(t) |-> P2Flag(y[i])])
                      c == SetColumn(b, "P3", [i \in 1..NRows(t) |-> P3Flag(y[i])])
                  IN  [df |-> t, ret |-> c, err |-> "none"]

----------------------------------------------------------------------------
(* The inputs of the four routines *)

RecodeCols == {"AGE", "ABSENT", "WHYABSNT"}

RecodeRows ==
    {[c \in RecodeCols |-> CASE c = "ABSENT" -> a [] c = "WHYABSNT" -> w [] OTHER -> g] :
        a \in {NaN, Num(0), Num(1), Str("1"), Frac(3, 2)},
        w \in {NaN, Num(10), Num(5), Str("10")},
        g \in {Num(30), Str("abc"), Str("3.5")}}

RecodeColSets == SUBSET RecodeCols

FlagRows ==
    {[c \in FlagColumns |->
        CASE c = "NCHILD" -> n [] c = "NCHLT5" -> u [] c = "MOMLOC" -> m [] OTHER -> p] :
        n \in {NaN, NA, Num(0), Num(2), Str("1"), Str("abc")},
        u \in {NaN, Num(0), Num(1), Str("abc")},
        m \in {NaN, Num(0), Num(3)},
        p \in {NaN, Num(0), Num(3)}}

FlagColSets == {FlagColumns} \cup {FlagColumns \ {c} : c \in FlagColumns}

AggInputCols == {"YEAR", "MONTH", "is_parent", "own_ill_absent", "EMPSTAT", "AGE"}

AggRow(y, m, p, o, e, a) ==
    [c \in AggInputCols |->
        CASE c = "YEAR" -> y
          [] c = "MONTH" -> m
          [] c = "is_parent" -> p
          [] c = "own_ill_absent" -> o
          [] c = "EMPSTAT" -> e
          [] OTHER -> a]

\* records as the recoder and the classifier leave them: whole numbers and pd.NA
AggRows ==
    {AggRow(Num(y), Num(m), Num(p), Num(o), Num(ea[1]), Num(ea[2])) :
        y \in {2007, 2008}, m \in {1, 2}, p \in {0, 1}, o \in {0, 1},
        ea \in {<<10, 25>>, <<12, 49>>}}
    \cup {AggRow(Num(2007), Num(1), Num(p), Num(1), ea[1], ea[2]) :
        p \in {0, 1},
        ea \in {<<Num(21), Num(30)>>, <<Num(10), Num(24)>>, <<Num(10), Num(50)>>,
                <<NA, Num(30)>>, <<Num(10), NA>>}}
    \cup {AggRow(NA, Num(1), Num(0), Num(1), Num(10), Num(25)),
          AggRow(Num(2007), NA, Num(0), Num(1), Num(10), Num(25))}

YearCells ==
    {NaN, NA, Num(1993), Num(1994), Num(2007), Num(2008), Num(2019), Num(2020),
     Str("2008"), Str("abc")}

YearRows == {[c \in {"YEAR"} |-> y] : y \in YearCells}

\* pd.NA lives in a nullable integer column, which holds no text and no NaN
ColumnTyped(t, c) ==
    (\E i \in 1..NRows(t) : t.rows[i][c].k = "na")
        => \A i \in 1..NRows(t) : t.rows[i][c].k \in {"na", "num"}

----------------------------------------------------------------------------
(* The caller: builds a table and applies one routine to it *)

FetchIdle == pc = "idle" /\ status = "none" /\ elapsed = 0 /\ polls = 0 /\ exc = "none"

\* a table over one of the column sets, of at most n rows, each one of rows cut
\* to the columns
InitTable(name, colsets, rows, n) ==
    /\ stage = name
    /\ \E cs \in colsets : \E m \in 0..n :
         \E r \in [1..m -> {Project(x, cs) : x \in rows}] :
            df = [cols |-> cs, rows |-> r]
    /\ orig = df
    /\ prev = EmptyTable /\ out = EmptyTable /\ err = "none" /\ calls = 0
    /\ FetchIdle

InitRecode == InitTable("recode", RecodeColSets, RecodeRows, MaxRecodeRows)
InitFlags == InitTable("flags", FlagColSets, FlagRows, MaxFlagRows)
InitAgg == InitTable("agg", {AggInputCols}, AggRows, MaxAggRows)
InitPeriods ==
    /\ InitTable("periods", {{"YEAR"}}, YearRows, MaxPeriodRows)
    /\ ColumnTyped(df, "YEAR")

\* df = minimal_recode(df), and again on its own output: the routine returns
\* the object it was given
Recode ==
    /\ stage = "recode" /\ calls < MaxCalls /\ err = "none"
    /\ LET r == minimal_recode(df)
       IN  df' = r.df /\ out' = r.ret /\ err' = r.err
    /\ prev' = out
    /\ calls' = calls + 1
    /\ UNCHANGED <<stage, orig, fetchVars>>

\* flagged = make_parent_flags(df), and again on its own output
Flags ==
    /\ stage = "flags" /\ calls < MaxCalls /\ err = "none"
    /\ LET r == make_parent_flags(IF calls = 0 THEN df ELSE out)
       IN  /\ df' = (IF calls = 0 THEN r.df ELSE df)
           /\ out' = r.ret /\ err' = r.err
    /\ prev' = out
    /\ calls' = calls + 1
    /\ UNCHANGED <<stage, orig, fetchVars>>

\* rates = _aggregate_monthly_rates(df)
Aggregate ==
    /\ stage = "agg" /\ calls = 0
    /\ LET r == aggregate_monthly_rates(df)
       IN  df' = r.df /\ out' = r.ret /\ err' = r.err
    /\ prev' = out
    /\ calls' = 1
    /\ UNCHANGED <<stage, orig, fetchVars>>

\* tagged = _make_periods(df)
Periods ==
    /\ stage = "periods" /\ calls = 0
    /\ LET r == make_periods(df)
       IN  df' = r.df /\ out' = r.ret /\ err' = r.err
    /\ prev' = out
    /\ calls' = 1
    /\ UNCHANGED <<stage, orig, fetchVars>>

NextRecode == Recode
NextFlags == Flags
NextAgg == Aggregate
NextPeriods == Periods

SpecRecode == InitRecode /\ [][NextRecode]_vars
SpecFlags == InitFlags /\ [][NextFlags]_vars
SpecAgg == InitAgg /\ [][NextAgg]_vars
SpecPeriods == InitPeriods /\ [][NextPeriods]_vars

Init == InitRecode \/ InitFlags \/ InitAgg \/ InitPeriods
Next == Recode \/ Flags \/ Aggregate \/ Periods
Spec == Init /\ [][Next]_vars

----------------------------------------------------------------------------
(* IpumsCpsClient.poll_extract and main() of ipums_cps.py *)

Statuses == {"queued", "started", "completed", "failed", "canceled", "missing"}

\* a status test that also takes a started extract for a finished one
IsCompleted_OrStarted(st) == st \in {"completed", "started"}

\* if status == "completed"
IsCompleted(st) == st = "completed"

\* if status in {"failed", "canceled"}
IsFailed(st) == st \in {"failed", "canceled"}

\* if time.time() - start > timeout_s
TimedOut == elapsed > TimeoutS

\* the tables the downloaded archive may hold
LoadedTables ==
    {[cols |-> {"ABSENT", "WHYABSNT", "AGE"},
      rows |-> <<[ABSENT |-> Num(1), WHYABSNT |-> Num(10), AGE |-> Num(30)]>>],
     [cols |-> {"ABSENT", "WHYABSNT", "AGE"},
      rows |-> <<[ABSENT |-> Num(1), WHYABSNT |-> Num(10), AGE |-> Str("3.5")]>>],
     [cols |-> {"ABSENT", "AGE"},
      rows |-> <<[ABSENT |-> Num(1), AGE |-> Num(30)]>>]}

InitFetch ==
    /\ stage = "fetch"
    /\ df = EmptyTable /\ orig = EmptyTable /\ prev = EmptyTable /\ out = EmptyTable
    /\ err = "none" /\ calls = 0
    /\ pc = "start" /\ status = "none" /\ elapsed = 0 /\ polls = 0 /\ exc = "none"

Raise(e) == pc' = "raised" /\ exc' = e

\* api_key = os.getenv("IPUMS_API_KEY"); if not api_key: raise SystemExit
CheckKey ==
    /\ stage = "fetch" /\ pc = "start"
    /\ \/ pc' = "submit" /\ exc' = exc
       \/ Raise("SystemExit")
    /\ UNCHANGED <<stage, tableVars, status, elapsed, polls>>

\* submit = client.submit_extract(); a response without a number is refused
Submit ==
    /\ stage = "fetch" /\ pc = "submit"
    /\ \/ pc' = "poll_get" /\ exc' = exc
       \/ Raise("HTTPError")
       \/ Raise("RuntimeError")
    /\ elapsed' = 0
    /\ UNCHANGED <<stage, tableVars, status, polls>>

\* r = requests.get(...); r.raise_for_status(); status = r.json().get("status")
PollGet ==
    /\ stage = "fetch" /\ pc = "poll_get"
    /\ \/ /\ \E st \in Statuses : status' = st
          /\ \E d \in 0..MaxLatency : elapsed' = elapsed + d
          /\ polls' = polls + 1
          /\ pc' = "poll_check" /\ exc' = exc
       \/ /\ Raise("HTTPError")
          /\ UNCHANGED <<status, elapsed, polls>>
    /\ UNCHANGED <<stage, tableVars>>

\* if status == "completed": return js
PollReturn ==
    /\ stage = "fetch" /\ pc = "poll_check"
    /\ IsCompleted(status)
    /\ pc' = "download"
    /\ UNCHANGED <<stage, tableVars, status, elapsed, polls, exc>>

\* if status in {"failed", "canceled"}: raise RuntimeError
PollFail ==
    /\ stage = "fetch" /\ pc = "poll_check"
    /\ ~IsCompleted(status) /\ IsFailed(status)
    /\ Raise("RuntimeError")
    /\ UNCHANGED <<stage, tableVars, status, elapsed, polls>>

\* if time.time() - start > timeout_s: raise TimeoutError
PollTimeout ==
    /\ stage = "fetch" /\ pc = "poll_check"
    /\ ~IsCompleted(status) /\ ~IsFailed(status) /\ TimedOut
    /\ Raise("TimeoutError")
    /\ UNCHANGED <<stage, tableVars, status, elapsed, polls>>

\* time.sleep(wait_s), and round the loop
PollSleep ==
    /\ stage = "fetch" /\ pc = "poll_check"
    /\ ~IsCompleted(status) /\ ~IsFailed(status) /\ ~TimedOut
    /\ elapsed' = elapsed + WaitS
    /\ pc' = "poll_get"
    /\ UNCHANGED <<stage, tableVars, status, polls, exc>>

\* zip_path = client.download_extract(...): no file listed, or a failed request
Download ==
    /\ stage = "fetch" /\ pc = "download"
    /\ \/ pc' = "load" /\ exc' = exc
       \/ Raise("HTTPError")
       \/ Raise("RuntimeError")
    /\ UNCHANGED <<stage, tableVars, status, elapsed, polls>>

\* df = client.load_parquet_from_zip(zip_path): no parquet in the archive
Load ==
    /\ stage = "fetch" /\ pc = "load"
    /\ \/ /\ df' \in LoadedTables /\ orig' = df'
          /\ pc' = "recode" /\ exc' = exc
       \/ /\ Raise("RuntimeError")
          /\ UNCHANGED <<df, orig>>
    /\ UNCHANGED <<stage, prev, out, err, calls, status, elapsed, polls>>

\* df = client.minimal_recode(df)
MainRecode ==
    /\ stage = "fetch" /\ pc = "recode"
    /\ LET r == minimal_recode(df)
       IN  /\ df' = r.df /\ out' = r.ret /\ err' = r.err
           /\ IF r.err = "none" THEN pc' = "write" /\ exc' = exc ELSE Raise(r.err)
    /\ prev' = out
    /\ calls' = calls + 1
    /\ UNCHANGED <<stage, orig, status, elapsed, polls>>

\* df.to_parquet("data/raw/cps.parquet")
WriteParquet ==
    /\ stage = "fetch" /\ pc = "write"
    /\ pc' = "done"
    /\ UNCHANGED <<stage, tableVars, status, elapsed, polls, exc>>

NextFetch ==
    \/ CheckKey \/ Submit
    \/ PollGet \/ PollReturn \/ PollFail \/ PollTimeout \/ PollSleep
    \/ Download \/ Load \/ MainRecode \/ WriteParquet

\* main() is one sequential process: it takes its next step as long as it has one
SpecFetch == InitFetch /\ [][NextFetch]_vars /\ WF_vars(NextFetch)

----------------------------------------------------------------------------
(* Properties.  They read the raw input (orig) with their own, literal       *)
(* reading of a cell, and the returned table (out).                          *)

Returned(name) == stage = name /\ calls >= 1 /\ err = "none"

\* the cells of the inputs that denote the whole number n
Reads(c, n) ==
    \/ c = Num(n)
    \/ c = Str("0") /\ n = 0
    \/ c = Str("1") /\ n = 1
    \/ c = Str("10") /\ n = 10
    \/ c = Str("2008") /\ n = 2008

\* the cells of the inputs that denote a number greater than 0
Positive(c) == c \in {Num(1), Num(2), Num(3), Str("1")}

\* the cells of the inputs that denote a number that is not whole
NotWhole(c) == c \in {Frac(3, 2), Str("3.5")}

Flag(t, i, c) == t.rows[i][c]
IsBit(c) == c \in {Num(0), Num(1)}

YearValues == {1993, 1994, 2007, 2008, 2019, 2020}

\* C1: every row the Period Tagger returns has P1, P2, P3 in {0, 1} with
\* P1 = 1 iff 1994 <= year <= 2007, P2 = 1 iff 2008 <= year <= 2019 and
\* P3 = 1 iff year >= 2020; so exactly one of them is 1 from 1994 on and all
\* three are 0 before 1994.
C1_PeriodFlags ==
    Returned("periods") =>
        /\ NRows(out) = NRows(orig)
        /\ \A i \in 1..NRows(out) :
            /\ IsBit(Flag(out, i, "P1")) /\ IsBit(Flag(out, i, "P2"))
            /\ IsBit(Flag(out, i, "P3"))
            /\ \A y \in YearValues : Reads(orig.rows[i]["YEAR"], y) =>
                /\ Flag(out, i, "P1") = Num(1) <=> (1994 <= y /\ y <= 2007)
                /\ Flag(out, i, "P2") = Num(1) <=> (2008 <= y /\ y <= 2019)
                /\ Flag(out, i, "P3") = Num(1) <=> (y >= 2020)
                /\ y >= 1994 =>
                     Flag(out, i, "P1").v + Flag(out, i, "P2").v + Flag(out, i, "P3").v = 1
                /\ y < 1994 =>
                     Flag(out, i, "P1").v + Flag(out, i, "P2").v + Flag(out, i, "P3").v = 0

\* a table with the years 2007 and 2008 has been tagged P1 and P2
C1_Witness ==
    /\ Returned("periods")
    /\ \E i, j \in 1..NRows(out) :
        /\ orig.rows[i]["YEAR"] = Num(2007) /\ Flag(out, i, "P1") = Num(1)
        /\ orig.rows[j]["YEAR"] = Num(2008) /\ Flag(out, j, "P2") = Num(1)

\* C2: every row the Recoder returns has own_ill_absent in {0, 1}, and 1 iff
\* ABSENT reads 1 and WHYABSNT reads 10; a null ABSENT or WHYABSNT gives 0.
C2_OwnIllRule ==
    Returned("recode") =>
        /\ NRows(out) = NRows(orig)
        /\ \A i \in 1..NRows(out) :
            /\ IsBit(Flag(out, i, "own_ill_absent"))
            /\ Flag(out, i, "own_ill_absent") = Num(1)
                 <=> (Reads(orig.rows[i]["ABSENT"], 1) /\ Reads(orig.rows[i]["WHYABSNT"], 10))
            /\ (IsNull(orig.rows[i]["ABSENT"]) \/ IsNull(orig.rows[i]["WHYABSNT"]))
                 => Flag(out, i, "own_ill_absent") = Num(0)

\* one record flagged 1, and one absent for another reason flagged 0
C2_Witness ==
    /\ Returned("recode") /\ calls = 1
    /\ \E i, j \in 1..NRows(out) :
        /\ Flag(out, i, "own_ill_absent") = Num(1)
        /\ orig.rows[j]["ABSENT"] = Num(1) /\ orig.rows[j]["WHYABSNT"] = Num(5)
        /\ Flag(out, j, "own_ill_absent") = Num(0)

\* C3: every row the Parent Classifier returns has is_parent = 1 iff NCHILD,
\* MOMLOC or POPLOC is greater than 0 and has_child_u5 = 1 iff NCHLT5 is
\* greater than 0, a null or unreadable cell counting as 0.
C3_ParentRule ==
    Returned("flags") =>
        /\ NRows(out) = NRows(orig)
        /\ \A i \in 1..NRows(out) :
            /\ IsBit(Flag(out, i, "is_parent")) /\ IsBit(Flag(out, i, "has_child_u5"))
            /\ Flag(out, i, "is_parent") = Num(1)
                 <=> \/ Positive(orig.rows[i]["NCHILD"])
                     \/ Positive(orig.rows[i]["MOMLOC"])
                     \/ Positive(orig.rows[i]["POPLOC"])
            /\ Flag(out, i, "has_child_u5") = Num(1) <=> Positive(orig.rows[i]["NCHLT5"])

\* a record with an unreadable NCHILD and a father link is a parent
C3_Witness ==
    /\ Returned("flags") /\ calls = 1
    /\ \E i \in 1..NRows(out) :
        /\ orig.rows[i]["NCHILD"] = Str("abc") /\ orig.rows[i]["MOMLOC"] = NaN
        /\ orig.rows[i]["POPLOC"] = Num(3)
        /\ Flag(out, i, "is_parent") = Num(1)
        /\ Flag(out, i, "has_child_u5") = Num(0)

\* the eligible records of the key (y, m, p): employed (10 or 12), aged 25 to 49
Eligible(y, m, p) ==
    {i \in 1..NRows(orig) :
        /\ orig.rows[i]["YEAR"] = Num(y) /\ orig.rows[i]["MONTH"] = Num(m)
        /\ orig.rows[i]["is_parent"] = Num(p)
        /\ orig.rows[i]["EMPSTAT"] \in {Num(10), Num(12)}
        /\ orig.rows[i]["AGE"].k = "num"
        /\ 25 <= orig.rows[i]["AGE"].v /\ orig.rows[i]["AGE"].v <= 49}

OutRowsOf(y, m, p) ==
    {n \in 1..NRows(out) :
        /\ Flag(out, n, "YEAR") = Num(y) /\ Flag(out, n, "MONTH") = Num(m)
        /\ Flag(out, n, "is_parent") = Num(p)}

AggKeys == {2007, 2008} \X {1, 2} \X {0, 1}

\* C4: the Rate Aggregator returns a row for a key iff some record of that key
\* is eligible, its rate is the sum of own_ill_absent over the count of
\* exactly the eligible records of the key, and so lies in [0, 1].
C4_RateRule ==
    Returned("agg") =>
        /\ \A n \in 1..NRows(out) :
            /\ <<Flag(out, n, "YEAR").v, Flag(out, n, "MONTH").v,
                 Flag(out, n, "is_parent").v>> \in AggKeys
            /\ Flag(out, n, "rate").k = "num" /\ Flag(out, n, "rate").d > 0
            /\ 0 <= Flag(out, n, "rate").v
            /\ Flag(out, n, "rate").v <= Flag(out, n, "rate").d
        /\ \A key \in AggKeys :
            LET el == Eligible(key[1], key[2], key[3])
                rs == OutRowsOf(key[1], key[2], key[3])
            IN  /\ rs # {} <=> el # {}
                /\ \A n \in rs :
                    /\ Flag(out, n, "rate").d = Cardinality(el)
                    /\ Flag(out, n, "rate").v =
                         Cardinality({i \in el : orig.rows[i]["own_ill_absent"] = Num(1)})

\* a key with one eligible and one ineligible record gets a rate over one
C4_Witness ==
    /\ Returned("agg")
    /\ \E key \in AggKeys :
        /\ Cardinality(Eligible(key[1], key[2], key[3])) = 1
        /\ \E i, j \in 1..NRows(orig) :
            /\ i # j /\ KeyOf(orig.rows[i]) = KeyOf(orig.rows[j])
            /\ i \in Eligible(key[1], key[2], key[3])
        /\ \E n \in OutRowsOf(key[1], key[2], key[3]) : Flag(out, n, "rate").d = 1

\* key of output row a comes before that of output row b
OutKeyBefore(a, b) ==
    LET ya == Flag(out, a, "YEAR").v    yb == Flag(out, b, "YEAR").v
        ma == Flag(out, a, "MONTH").v   mb == Flag(out, b, "MONTH").v
        pa == Flag(out, a, "is_parent").v  pb == Flag(out, b, "is_parent").v
    IN  ya < yb \/ (ya = yb /\ (ma < mb \/ (ma = mb /\ pa < pb)))

\* C9: the Rate Aggregator's rows are in strictly ascending order of
\* (YEAR, MONTH, is_parent), one per observed key, whatever the input order.
C9_SortedUnique ==
    Returned("agg") =>
        /\ \A a, b \in 1..NRows(out) : a < b => OutKeyBefore(a, b)
        /\ \A key \in AggKeys :
            Cardinality(OutRowsOf(key[1], key[2], key[3]))
                = (IF Eligible(key[1], key[2], key[3]) # {} THEN 1 ELSE 0)
        /\ NRows(out) = Cardinality({key \in AggKeys : Eligible(key[1], key[2], key[3]) # {}})

\* two eligible records given in descending key order come out ascending
C9_Witness ==
    /\ Returned("agg") /\ NRows(out) = 2 /\ NRows(orig) = 2
    /\ KeyOf(orig.rows[1]) = <<Flag(out, 2, "YEAR"), Flag(out, 2, "MONTH"),
                               Flag(out, 2, "is_parent")>>
    /\ KeyOf(orig.rows[2]) = <<Flag(out, 1, "YEAR"), Flag(out, 1, "MONTH"),
                               Flag(out, 1, "is_parent")>>

RequiredMissing == ~({"ABSENT", "WHYABSNT"} \subseteq orig.cols)

C6_Original ==
    (stage = "recode" /\ calls >= 1 /\ ~RequiredMissing) =>
        /\ err = "none"
        /\ NRows(out) = NRows(orig)
        /\ \A i \in 1..NRows(out) : \A c \in orig.cols :
            (\A n \in {0, 1, 5, 10, 30} : ~Reads(orig.rows[i][c], n)) => Flag(out, i, c) = NA

\* C7 as stated, for the calls that return: after the call the table passed in
\* has the columns and cells it had before the call.
C7_Original == (calls >= 1 /\ err = "none") => df = orig

\* C8: the Recoder and the Parent Classifier applied to their own output
\* return the flags that output already had.
C8_Idempotent ==
    (stage \in {"recode", "flags"} /\ calls >= 2 /\ err = "none") =>
        /\ NRows(out) = NRows(prev)
        /\ \A i \in 1..NRows(out) :
            \A c \in {"own_ill_absent", "is_parent", "has_child_u5"} \cap prev.cols :
                c \in out.cols /\ Flag(out, i, c) = Flag(prev, i, c)

\* a table whose ABSENT and WHYABSNT were text has been recoded twice
C8_Witness ==
    /\ stage = "recode" /\ calls = 2 /\ err = "none"
    /\ \E i \in 1..NRows(out) :
        /\ orig.rows[i]["ABSENT"] = Str("1") /\ orig.rows[i]["WHYABSNT"] = Str("10")
        /\ Flag(prev, i, "own_ill_absent") = Num(1)
        /\ Flag(out, i, "own_ill_absent") = Num(1)

AfterPoll == {"download", "load", "recode", "write", "done"}
InPoll == {"poll_get", "poll_check"}

\* what holds of every state of the fetch
PollSafe ==
    /\ pc \in AfterPoll => status = "completed"
    /\ (pc = "raised" /\ exc = "TimeoutError")
         => (status \notin {"completed", "failed", "canceled"} /\ elapsed > TimeoutS)
    /\ (pc = "raised" /\ polls >= 1 /\ status \notin {"completed", "failed", "canceled"}
          /\ exc # "HTTPError") => exc = "TimeoutError"

\* what every step from a fetched status does
PollStep ==
    pc = "poll_check" =>
        /\ status = "completed" => pc' = "download"
        /\ status \in {"failed", "canceled"}
             => (pc' = "raised" /\ exc' = "RuntimeError" /\ polls' = polls)
        /\ (status \notin {"completed", "failed", "canceled"} /\ elapsed > TimeoutS)
             => (pc' = "raised" /\ exc' = "TimeoutError" /\ polls' = polls)
        /\ (status \notin {"completed", "failed", "canceled"} /\ elapsed <= TimeoutS)
             => (pc' = "poll_get" /\ elapsed' = elapsed + WaitS)

\* C10: poll_extract returns only on a fetched "completed", raises RuntimeError
\* as soon as a fetched status is "failed" or "canceled", and otherwise raises
\* TimeoutError once the elapsed time exceeds timeout_s or waits wait_s and
\* polls again; main downloads, loads, recodes and writes only after a poll
\* that saw "completed"; and the loop always ends.
C10_PollContract ==
    /\ []PollSafe
    /\ [][PollStep]_vars
    /\ <>(pc \notin InPoll \cup {"start", "submit"})
    /\ [](pc \in InPoll => <>(pc \notin InPoll))

\* the extract was polled more than once, completed, and the file was written
C10_Witness == pc = "done" /\ polls >= 2 /\ status = "completed" /\ elapsed > 0

====
